---- MODULE Spec2Model ----
(***************************************************************************)
(* The PayMCP-TS security pipeline: compliance-scan.py (ComplianceScanner) *)
(* writes compliance-scan-results.json, generate-security-report.py        *)
(* (SecurityReportGenerator) folds it and the external artifacts into      *)
(* security-detailed-report.json, and security-gate.py (SecurityGate)      *)
(* turns that report into a process exit code.                             *)
(*                                                                         *)
(* File text is abstracted to a sequence of lexical items: "nl" is a       *)
(* newline and any other item is one occurrence of text matching the       *)
(* catalog pattern of that name.  JSON documents are records holding the   *)
(* fields the scripts read.                                                *)
(***************************************************************************)
EXTENDS Integers, Sequences, FiniteSets, TLC

VARIABLES
    files,            \* the list get_typescript_files returned
    fileIdx,          \* position of scan_project's loop over files_to_scan
    npmAuditOutput,   \* what `npm audit --json` reports for this project
    results,          \* ComplianceScanner.results
    pcScan,           \* position of the scanner process
    scanExit,         \* exit code of the scanner process (-1: none yet)
    complianceFile,   \* compliance-scan-results.json on disk
    npmArtifact,      \* npm-audit.json on disk
    auditCiArtifact,  \* audit-ci-results.json on disk
    eslintArtifact,   \* eslint-security.json on disk
    report_data,      \* SecurityReportGenerator.report_data
    pcAgg,            \* position of the report generator process
    reportFile,       \* security-detailed-report.json on disk
    report,           \* the gate's loaded report (local of run_security_gate)
    violations,       \* SecurityGate.violations
    warnings,         \* SecurityGate.warnings
    passed_checks,    \* SecurityGate.passed_checks
    pcGate,           \* position of the gate process
    gateExit,         \* exit code of the gate process (-1: none yet)
    runs,             \* evaluations of the report, this one included
    lastVerdict       \* the Verdict of the evaluation before this one

vars == << files, fileIdx, npmAuditOutput, results, pcScan, scanExit,
           complianceFile, npmArtifact, auditCiArtifact, eslintArtifact,
           report_data, pcAgg, reportFile, report, violations, warnings,
           passed_checks, pcGate, gateExit, runs, lastVerdict >>

scanVars == << files, fileIdx, npmAuditOutput, results, pcScan, scanExit,
               complianceFile >>
artifactVars == << npmArtifact, auditCiArtifact, eslintArtifact >>
aggVars == << report_data, pcAgg, reportFile >>
gateVars == << report, violations, warnings, passed_checks, pcGate, gateExit,
               runs, lastVerdict >>

-----------------------------------------------------------------------------
(* Bounds of the explored inputs *)

MaxFiles == 2
MaxVulns == 1
MaxEvaluations == 2

SeqsUpTo(S, n) == UNION { [1..k -> S] : k \in 0..n }

RECURSIVE SortedSeq(_)
SortedSeq(S) ==
    IF S = {} THEN << >>
    ELSE LET m == CHOOSE x \in S : \A y \in S : x <= y
         IN  << m >> \o SortedSeq(S \ {m})

-----------------------------------------------------------------------------
(* security-gate.py : the policy *)

\* __init__: gate_config
max_critical_issues == 0
max_high_issues == 0
max_secrets == 0
max_payment_issues == 0
warn_medium_issues == 5
warn_dependency_issues == 10
required_scans == << "compliance_scan", "dependency_scan" >>

-----------------------------------------------------------------------------
(* compliance-scan.py : the pattern catalog *)

SecretTypes ==
    << "api_key", "secret_key", "password", "jwt_token", "private_key",
       "aws_access_key", "aws_secret_key", "github_token", "bearer_token",
       "stripe_key" >>

PaymentTypes == << "credit_card", "cvv", "expiry", "payment_logging" >>

VulnerablePackages == << "lodash", "moment", "node-uuid", "request" >>

PackageFiles == << "package.json", "package-lock.json", "yarn.lock" >>

Range(s) == { s[i] : i \in DOMAIN s }

-----------------------------------------------------------------------------
(* compliance-scan.py : scan_file *)

\* content[:match.start()].count('\n') + 1
LineOf(content, i) ==
    1 + Cardinality({ j \in 1..(i - 1) : content[j] = "nl" })

\* pattern.finditer(content): the match positions, left to right
FindIter(type, content) ==
    SortedSeq({ i \in DOMAIN content : content[i] = type })

SecretInfo(type, path, content, i) ==
    [ type |-> type, file |-> path, line |-> LineOf(content, i),
      severity |-> "high" ]

PaymentSeverity(type) ==
    IF type \in {"credit_card", "cvv"} THEN "high" ELSE "medium"

PaymentInfo(type, path, content, i) ==
    [ type |-> type, file |-> path, line |-> LineOf(content, i),
      severity |-> PaymentSeverity(type) ]

\* One pass of "for type, pattern in patterns.items(): for match in ..."
\* from catalog position k on: the findings appended, in order.
RECURSIVE ScanSecrets(_, _, _)
ScanSecrets(k, path, content) ==
    IF k > Len(SecretTypes) THEN << >>
    ELSE LET pos == FindIter(SecretTypes[k], content)
         IN  [ n \in 1..Len(pos) |->
                 SecretInfo(SecretTypes[k], path, content, pos[n]) ]
             \o ScanSecrets(k + 1, path, content)

RECURSIVE ScanPayments(_, _, _)
ScanPayments(k, path, content) ==
    IF k > Len(PaymentTypes) THEN << >>
    ELSE LET pos == FindIter(PaymentTypes[k], content)
         IN  [ n \in 1..Len(pos) |->
                 PaymentInfo(PaymentTypes[k], path, content, pos[n]) ]
             \o ScanPayments(k + 1, path, content)

CountSeverity(findings, sev) ==
    Cardinality({ i \in DOMAIN findings : findings[i].severity = sev })

\* Increments scan_file makes to self.results['high_severity_count'].
ScanFileHigh(secrets, payments) ==
    Len(secrets) + CountSeverity(payments, "high")

\* Increments scan_file makes to self.results['medium_severity_count'].
ScanFileMedium(payments) ==
    Len(payments) - CountSeverity(payments, "high")

\* scan_file(filepath): the file_results it returns and the tallies it adds.
\* open()/read() raising leaves file_results empty and the tallies alone.
scan_file(f) ==
    IF ~f.readable
    THEN [ secrets |-> << >>, payment_issues |-> << >>, high |-> 0, medium |-> 0 ]
    ELSE LET secrets  == ScanSecrets(1, f.path, f.content)
             payments == ScanPayments(1, f.path, f.content)
         IN  [ secrets |-> secrets, payment_issues |-> payments,
               high |-> ScanFileHigh(secrets, payments),
               medium |-> ScanFileMedium(payments) ]

-----------------------------------------------------------------------------
(* compliance-scan.py : scan_dependencies and run_npm_audit *)

DependencyIssue(package, file) ==
    [ type |-> "vulnerable_dependency", package |-> package, file |-> file,
      severity |-> "medium" ]

\* The issues one package file adds: one per catalog pattern re.search finds.
\* m.state is "absent", "unreadable" or "ok"; m.declares the patterns matching.
RECURSIVE ManifestIssues(_, _, _)
ManifestIssues(k, file, m) ==
    IF m.state # "ok" \/ k > Len(VulnerablePackages) THEN << >>
    ELSE (IF VulnerablePackages[k] \in m.declares
          THEN << DependencyIssue(VulnerablePackages[k], file) >>
          ELSE << >>)
         \o ManifestIssues(k + 1, file, m)

RECURSIVE ScanDependencyFiles(_, _)
ScanDependencyFiles(k, manifests) ==
    IF k > Len(PackageFiles) THEN << >>
    ELSE ManifestIssues(1, PackageFiles[k], manifests[k])
         \o ScanDependencyFiles(k + 1, manifests)

NoSeverity == "<missing>"

\* vuln_data.get('severity', 'unknown')
ScannerSeverity(v) == IF v.severity = NoSeverity THEN "unknown" ELSE v.severity

AuditIssue(v) ==
    [ type |-> "npm_audit_vulnerability", package |-> v.name, file |-> "",
      severity |-> ScannerSeverity(v) ]

\* AuditTally with the final else taken for 'low' alone: a vulnerability of
\* any other severity is appended and not tallied.
AuditTallyLowOnly(sev) ==
    IF sev = "high" \/ sev = "critical" THEN "high"
    ELSE IF sev = "moderate" THEN "medium"
    ELSE IF sev = "low" THEN "low"
    ELSE "none"

\* Which tally run_npm_audit increments for a vulnerability.
AuditTally(sev) ==
    IF sev = "high" \/ sev = "critical" THEN "high"
    ELSE IF sev = "moderate" THEN "medium"
    ELSE "low"

CountTally(issues, tally) ==
    Cardinality({ i \in DOMAIN issues : AuditTally(issues[i].severity) = tally })

\* run_npm_audit on stdout `out`: the issues appended.  Empty stdout, stdout
\* that is not JSON, and JSON without 'vulnerabilities' append nothing.
AuditIssues(out) ==
    IF out.state = "ok" /\ out.hasVulns
    THEN [ n \in 1..Len(out.vulns) |-> AuditIssue(out.vulns[n]) ]
    ELSE << >>

-----------------------------------------------------------------------------
(* Inputs of the scanner *)

TokenAlphabet == { "nl", "api_key", "credit_card", "expiry" }

FilePaths == << "src/a.ts", "src/b.ts", "src/c.ts", "src/d.ts" >>

\* Texts with at most one match.
SimpleContents == SeqsUpTo(TokenAlphabet, 1)

\* Texts with several matches, on one line and on several.
SampleContents ==
    SimpleContents
    \cup { << "nl", "api_key", "expiry" >>, << "expiry", "credit_card" >>,
           << "api_key", "nl", "api_key" >> }

\* A file whose open() or read() raises, or a file with one of the texts.
FileStates(contents) ==
    { [ readable |-> FALSE, content |-> << >> ] }
    \cup { [ readable |-> TRUE, content |-> c ] : c \in contents }

FileLists(maxFiles, contents) ==
    UNION { { [ i \in 1..n |-> [ path |-> FilePaths[i],
                                   readable |-> fs[i].readable,
                                   content |-> fs[i].content ] ] :
              fs \in [1..n -> FileStates(contents)] } : n \in 0..maxFiles }

ManifestStates ==
    { [ state |-> "absent", declares |-> {} ],
      [ state |-> "unreadable", declares |-> {} ],
      [ state |-> "ok", declares |-> {} ],
      [ state |-> "ok", declares |-> {"lodash"} ],
      [ state |-> "ok", declares |-> {"lodash", "request"} ] }

Absent == [ state |-> "absent", declares |-> {} ]

Lodash == [ state |-> "ok", declares |-> {"lodash"} ]

\* package.json in any of the states, alone or with a lock file repeating it.
ManifestInputs ==
    { << m, Absent, Absent >> : m \in ManifestStates }
    \cup { << Lodash, Lodash, Absent >> }

AuditSeverities ==
    { "critical", "high", "moderate", "low", "unknown", NoSeverity }

VulnNames ==
    << "pkg01", "pkg02", "pkg03", "pkg04", "pkg05", "pkg06", "pkg07", "pkg08",
       "pkg09", "pkg10", "pkg11", "pkg12" >>

Vulns(sevs) == [ n \in 1..Len(sevs) |-> [ name |-> VulnNames[n], severity |-> sevs[n] ] ]

\* `npm audit --json` printing an error object: JSON without 'vulnerabilities'
AuditErrorDoc == [ hasVulns |-> FALSE, vulns |-> << >> ]

AuditDoc(sevs) == [ hasVulns |-> TRUE, vulns |-> Vulns(sevs) ]

\* What `npm audit --json` can print for the project.
AuditOutputs ==
    { AuditErrorDoc }
    \cup { AuditDoc(sevs) : sevs \in SeqsUpTo(AuditSeverities, MaxVulns) }
    \cup { AuditDoc([ n \in 1..(warn_dependency_issues + 1) |-> "low" ]) }

-----------------------------------------------------------------------------
(* compliance-scan.py : the scanner process *)

ResultsInit ==
    [ secrets_found |-> << >>, payment_issues |-> << >>,
      dependency_issues |-> << >>, high_severity_count |-> 0,
      medium_severity_count |-> 0, low_severity_count |-> 0,
      scan_timestamp |-> "None", scanned_files |-> 0 ]

NoFile == [ state |-> "absent", data |-> ResultsInit ]

\* scan_project, one turn of "for filepath in files_to_scan"
ScanFileStep ==
    /\ pcScan = "files"
    /\ fileIdx <= Len(files)
    /\ LET file_results == scan_file(files[fileIdx])
       IN  results' =
             [ results EXCEPT
                 !.secrets_found = @ \o file_results.secrets,
                 !.payment_issues = @ \o file_results.payment_issues,
                 !.high_severity_count = @ + file_results.high,
                 !.medium_severity_count = @ + file_results.medium,
                 !.scanned_files = @ + 1 ]
    /\ fileIdx' = fileIdx + 1
    /\ UNCHANGED << files, npmAuditOutput, pcScan, scanExit, complianceFile >>
    /\ UNCHANGED << artifactVars, aggVars, gateVars >>

\* scan_dependencies, called when the loop over the files has ended
scan_dependencies ==
    /\ pcScan = "files"
    /\ fileIdx > Len(files)
    /\ \E manifests \in ManifestInputs :
         LET issues == ScanDependencyFiles(1, manifests)
         IN  results' =
               [ results EXCEPT
                   !.dependency_issues = @ \o issues,
                   !.medium_severity_count = @ + Len(issues) ]
    /\ pcScan' = "audit"
    /\ UNCHANGED << files, fileIdx, npmAuditOutput, scanExit, complianceFile >>
    /\ UNCHANGED << artifactVars, aggVars, gateVars >>

\* What subprocess.run / json.loads give the scanner: the audit document,
\* an empty stdout, or an exception (npm missing, stdout not JSON).
SubprocessOutcomes == { "ok", "empty", "exception" }

run_npm_audit ==
    /\ pcScan = "audit"
    /\ \E how \in SubprocessOutcomes :
         LET out    == [ state |-> how, hasVulns |-> npmAuditOutput.hasVulns,
                         vulns |-> npmAuditOutput.vulns ]
             issues == AuditIssues(out)
         IN  results' =
               [ results EXCEPT
                   !.dependency_issues = @ \o issues,
                   !.high_severity_count = @ + CountTally(issues, "high"),
                   !.medium_severity_count = @ + CountTally(issues, "medium"),
                   !.low_severity_count = @ + CountTally(issues, "low") ]
    /\ pcScan' = "report"
    /\ UNCHANGED << files, fileIdx, npmAuditOutput, scanExit, complianceFile >>
    /\ UNCHANGED << artifactVars, aggVars, gateVars >>

\* The end of scan_project (the timestamp) and generate_report: the results
\* are written and the process exits 1 when a high-severity issue was found.
generate_report ==
    /\ pcScan = "report"
    /\ results' = [ results EXCEPT !.scan_timestamp = "now" ]
    /\ complianceFile' = [ state |-> "ok", data |-> results' ]
    /\ scanExit' = IF results.high_severity_count > 0 THEN 1 ELSE 0
    /\ pcScan' = "done"
    /\ UNCHANGED << files, fileIdx, npmAuditOutput >>
    /\ UNCHANGED << artifactVars, aggVars, gateVars >>

\* The scanner stage did not run or did not finish: the later stages find
\* no compliance-scan-results.json, or one json.load rejects.
ScannerNotRun ==
    /\ pcScan = "files"
    /\ fileIdx = 1
    /\ \E st \in { "absent", "corrupt" } :
         complianceFile' = [ state |-> st, data |-> ResultsInit ]
    /\ pcScan' = "skipped"
    /\ UNCHANGED << files, fileIdx, npmAuditOutput, results, scanExit >>
    /\ UNCHANGED << artifactVars, aggVars, gateVars >>

ScanFinished == pcScan \in { "done", "skipped" }

-----------------------------------------------------------------------------
(* generate-security-report.py : SecurityReportGenerator *)

SummaryInit ==
    [ total_issues |-> 0, critical_count |-> 0, high_count |-> 0,
      medium_count |-> 0, low_count |-> 0, info_count |-> 0 ]

\* __init__: report_data.  codeql_results and semgrep_results stay {}.
ReportDataInit ==
    [ dependency_scan |->
        [ has_npm_audit |-> FALSE, npm_audit |-> AuditErrorDoc,
          has_audit_ci |-> FALSE ],
      eslint_security |-> [ has_results |-> FALSE, results |-> << >> ],
      compliance_scan |-> [ loaded |-> FALSE, data |-> ResultsInit ],
      summary |-> SummaryInit,
      recommendations |-> << >> ]

\* load_json_file: the document, or None for a missing or unparsable file
Loadable(file) == file.state = "ok"

\* SeverityKey with a severity outside the table filed under low.
SeverityKeyDefaultLow(severity) ==
    CASE severity = "critical" -> "critical_count"
      [] severity = "high"     -> "high_count"
      [] severity = "medium"   -> "medium_count"
      [] severity = "moderate" -> "medium_count"
      [] severity = "info"     -> "info_count"
      [] OTHER                 -> "low_count"

\* severity_map.get(severity.lower(), 'info_count')
SeverityKey(severity) ==
    CASE severity = "critical" -> "critical_count"
      [] severity = "high"     -> "high_count"
      [] severity = "medium"   -> "medium_count"
      [] severity = "moderate" -> "medium_count"
      [] severity = "low"      -> "low_count"
      [] severity = "info"     -> "info_count"
      [] OTHER                 -> "info_count"

increment_severity_count(summary, severity) ==
    [ summary EXCEPT ![SeverityKey(severity)] = @ + 1,
                     !.total_issues = @ + 1 ]

\* vuln_data.get('severity', 'info')
GeneratorSeverity(v) == IF v.severity = NoSeverity THEN "info" ELSE v.severity

\* "for vuln_name, vuln_data in data['vulnerabilities'].items()" from item k on
RECURSIVE CountVulnerabilities(_, _, _)
CountVulnerabilities(summary, vulns, k) ==
    IF k > Len(vulns) THEN summary
    ELSE CountVulnerabilities(
             increment_severity_count(summary, GeneratorSeverity(vulns[k])),
             vulns, k + 1)

process_npm_audit_results(rd, artifact) ==
    IF Loadable(artifact)
    THEN [ rd EXCEPT
             !.dependency_scan.has_npm_audit = TRUE,
             !.dependency_scan.npm_audit = artifact.data,
             !.summary = IF artifact.data.hasVulns
                         THEN CountVulnerabilities(@, artifact.data.vulns, 1)
                         ELSE @ ]
    ELSE rd

process_audit_ci_results(rd, artifact) ==
    IF Loadable(artifact)
    THEN [ rd EXCEPT !.dependency_scan.has_audit_ci = TRUE ]
    ELSE rd

\* message.get('severity', 1): 2 is an error, anything else a warning
EslintSeverity(message) ==
    IF message.hasSeverity /\ message.severity = 2 THEN "high" ELSE "medium"

RECURSIVE CountMessages(_, _, _)
CountMessages(summary, messages, k) ==
    IF k > Len(messages) THEN summary
    ELSE CountMessages(
             increment_severity_count(summary, EslintSeverity(messages[k])),
             messages, k + 1)

RECURSIVE CountFileResults(_, _, _)
CountFileResults(summary, data, k) ==
    IF k > Len(data) THEN summary
    ELSE CountFileResults(
             IF data[k].hasMessages
             THEN CountMessages(summary, data[k].messages, 1)
             ELSE summary,
             data, k + 1)

\* "if data and isinstance(data, list)": a non-empty JSON list
process_eslint_results(rd, artifact) ==
    IF Loadable(artifact) /\ artifact.isList /\ artifact.data # << >>
    THEN [ rd EXCEPT
             !.eslint_security = [ has_results |-> TRUE, results |-> artifact.data ],
             !.summary = CountFileResults(@, artifact.data, 1) ]
    ELSE rd

\* The tallies of the ScanResult added to the Summary.
AddComplianceCounts(summary, data) ==
    [ summary EXCEPT
        !.critical_count = @ + data.high_severity_count,
        !.medium_count = @ + data.medium_severity_count,
        !.low_count = @ + data.low_severity_count ]

process_compliance_results(rd, file) ==
    IF Loadable(file)
    THEN [ rd EXCEPT
             !.compliance_scan = [ loaded |-> TRUE, data |-> file.data ],
             !.summary = AddComplianceCounts(@, file.data) ]
    ELSE rd

Recommendation(priority, about) == [ priority |-> priority, about |-> about ]

Conditional(cond, rec) == IF cond THEN << rec >> ELSE << >>

DependencyScanNonEmpty(rd) ==
    rd.dependency_scan.has_npm_audit \/ rd.dependency_scan.has_audit_ci

\* NoIssuesDetected that never holds: no INFO recommendation at all.
NoIssuesNever(summary) == summary.total_issues < 0

NoIssuesDetected(summary) == summary.total_issues = 0

generate_recommendations(rd) ==
    LET compliance == rd.compliance_scan
    IN  Conditional(rd.summary.critical_count > 0,
                    Recommendation("CRITICAL", "critical issues"))
        \o Conditional(rd.summary.high_count > 0,
                       Recommendation("HIGH", "high severity issues"))
        \o Conditional(compliance.loaded /\ compliance.data.secrets_found # << >>,
                       Recommendation("CRITICAL", "secrets"))
        \o Conditional(compliance.loaded /\ compliance.data.payment_issues # << >>,
                       Recommendation("HIGH", "payment data"))
        \o Conditional(DependencyScanNonEmpty(rd),
                       Recommendation("MEDIUM", "npm audit fix"))
        \o Conditional(NoIssuesDetected(rd.summary),
                       Recommendation("INFO", "no issues detected"))

-----------------------------------------------------------------------------
(* The external artifacts the generator looks for *)

Message(sev) == [ hasSeverity |-> TRUE, severity |-> sev ]

Messages ==
    { Message(1), Message(2), [ hasSeverity |-> FALSE, severity |-> 0 ] }

FileResults ==
    { [ hasMessages |-> FALSE, messages |-> << >> ] }
    \cup { [ hasMessages |-> TRUE, messages |-> ms ] :
             ms \in SeqsUpTo(Messages, 1) }

EslintArtifacts ==
    { [ state |-> "absent", isList |-> FALSE, data |-> << >> ],
      [ state |-> "ok", isList |-> FALSE, data |-> << >> ],
      [ state |-> "ok", isList |-> TRUE, data |-> << >> ] }
    \cup { [ state |-> "ok", isList |-> TRUE, data |-> << fr >> ] :
             fr \in FileResults }
    \cup { [ state |-> "ok", isList |-> TRUE, data |->
               << [ hasMessages |-> TRUE, messages |->
                      [ n \in 1..(warn_medium_issues + 1) |-> Message(1) ] ] >> ] }

\* npm-audit.json is `npm audit --json` redirected to a file by another job:
\* missing, cut short, or the project's audit document.
NpmArtifacts ==
    { [ state |-> st, data |-> AuditErrorDoc ] : st \in { "absent", "corrupt" } }
    \cup { [ state |-> "ok", data |-> npmAuditOutput ] }

AuditCiArtifacts == { [ state |-> st ] : st \in { "absent", "ok" } }

\* find_artifact_file: what the globs find when the generator starts
ArtifactsFound ==
    /\ ScanFinished
    /\ pcAgg = "idle"
    /\ npmArtifact' \in NpmArtifacts
    /\ auditCiArtifact' \in AuditCiArtifacts
    /\ eslintArtifact' \in EslintArtifacts
    /\ pcAgg' = "npm"
    /\ UNCHANGED << report_data, reportFile >>
    /\ UNCHANGED << scanVars, gateVars >>

-----------------------------------------------------------------------------
(* generate-security-report.py : generate_reports, call by call *)

AggStep(from, to, rd) ==
    /\ pcAgg = from
    /\ report_data' = rd
    /\ pcAgg' = to
    /\ UNCHANGED reportFile
    /\ UNCHANGED << scanVars, artifactVars, gateVars >>

ProcessNpmAudit ==
    AggStep("npm", "audit_ci", process_npm_audit_results(report_data, npmArtifact))

ProcessAuditCi ==
    AggStep("audit_ci", "eslint", process_audit_ci_results(report_data, auditCiArtifact))

ProcessEslint ==
    AggStep("eslint", "compliance", process_eslint_results(report_data, eslintArtifact))

ProcessCompliance ==
    AggStep("compliance", "recommend",
            process_compliance_results(report_data, complianceFile))

\* generate_recommendations, then json.dump of report_data
WriteReports ==
    /\ pcAgg = "recommend"
    /\ report_data' =
         [ report_data EXCEPT !.recommendations = generate_recommendations(report_data) ]
    /\ reportFile' = [ state |-> "ok", data |-> report_data' ]
    /\ pcAgg' = "done"
    /\ UNCHANGED << scanVars, artifactVars, gateVars >>

\* The generator stage did not run or did not finish: the gate finds no
\* security-detailed-report.json, one json.load rejects, or an empty document.
GeneratorNotRun ==
    /\ ScanFinished
    /\ pcAgg = "idle"
    /\ \E st \in { "absent", "corrupt", "empty" } :
         reportFile' = [ state |-> st, data |-> ReportDataInit ]
    /\ pcAgg' = "skipped"
    /\ UNCHANGED report_data
    /\ UNCHANGED << scanVars, artifactVars, gateVars >>

AggFinished == pcAgg \in { "done", "skipped" }

-----------------------------------------------------------------------------
(* security-gate.py : SecurityGate *)

\* A line of a Verdict list: its text, the count and the scan name it cites.
Line(text, n, scan) == [ text |-> text, n |-> n, scan |-> scan ]

\* load_security_report: the report returned ({} is empty |-> TRUE) and the
\* violation appended on the way.
LoadedReport(file) ==
    IF file.state = "ok"
    THEN [ empty |-> FALSE, data |-> file.data ]
    ELSE [ empty |-> TRUE, data |-> ReportDataInit ]

LoadViolations(file) ==
    IF file.state = "absent"
    THEN << Line("Security report not found", 0, "") >>
    ELSE IF file.state = "corrupt"
    THEN << Line("Failed to load security report", 0, "") >>
    ELSE << >>

\* CannotLoad without the test: the checks run on whatever was returned.
CannotLoadUnchecked(rep) == FALSE

\* "if not report: sys.exit(1)"
CannotLoad(rep) == rep.empty

\* The outcome of one threshold comparison.
Exceeds(count, threshold) == count > threshold

\* check_critical_issues: << violations, passed checks >> appended
CriticalOutcome(rep) ==
    LET critical_count == rep.data.summary.critical_count
        high_count     == rep.data.summary.high_count
        crit == IF Exceeds(critical_count, max_critical_issues)
                THEN << << Line("Critical issues found", critical_count, "") >>, << >> >>
                ELSE << << >>, << Line("Critical issues", critical_count, "") >> >>
        high == IF Exceeds(high_count, max_high_issues)
                THEN << << Line("High severity issues found", high_count, "") >>, << >> >>
                ELSE << << >>, << Line("High severity issues", high_count, "") >> >>
    IN  << crit[1] \o high[1], crit[2] \o high[2] >>

\* "compliance = report.get('compliance_scan', {}); if not compliance"
ComplianceMissing(rep) == ~rep.data.compliance_scan.loaded

\* ComplianceOutcome with the secrets count read from the Summary's critical
\* bucket in place of the ScanResult's secrets_found.
ComplianceOutcomeFromSummary(rep) ==
    IF ComplianceMissing(rep)
    THEN << << Line("Compliance scan results not found", 0, "") >>, << >> >>
    ELSE
    LET compliance     == rep.data.compliance_scan.data
        secrets_count  == rep.data.summary.critical_count
        payment_issues == Len(compliance.payment_issues)
        sec == IF Exceeds(secrets_count, max_secrets)
               THEN << << Line("Secrets found in code", secrets_count, "") >>, << >> >>
               ELSE << << >>, << Line("Secrets in code", secrets_count, "") >> >>
        pay == IF Exceeds(payment_issues, max_payment_issues)
               THEN << << Line("Payment data issues", payment_issues, "") >>, << >> >>
               ELSE << << >>, << Line("Payment data issues", payment_issues, "") >> >>
    IN  << sec[1] \o pay[1], sec[2] \o pay[2] >>

\* check_compliance_issues: << violations, passed checks >> appended
ComplianceOutcome(rep) ==
    IF ComplianceMissing(rep)
    THEN << << Line("Compliance scan results not found", 0, "") >>, << >> >>
    ELSE
    LET compliance     == rep.data.compliance_scan.data
        secrets_count  == Len(compliance.secrets_found)
        payment_issues == Len(compliance.payment_issues)
        sec == IF Exceeds(secrets_count, max_secrets)
               THEN << << Line("Secrets found in code", secrets_count, "") >>, << >> >>
               ELSE << << >>, << Line("Secrets in code", secrets_count, "") >> >>
        pay == IF Exceeds(payment_issues, max_payment_issues)
               THEN << << Line("Payment data issues", payment_issues, "") >>, << >> >>
               ELSE << << >>, << Line("Payment data issues", payment_issues, "") >> >>
    IN  << sec[1] \o pay[1], sec[2] \o pay[2] >>

\* check_dependency_issues: << warnings, passed checks >> appended
DependencyOutcome(rep) ==
    IF ~DependencyScanNonEmpty(rep.data)
    THEN << << Line("Dependency scan results not found", 0, "") >>, << >> >>
    ELSE
    LET dependency_scan == rep.data.dependency_scan
        total_vulnerabilities ==
            IF dependency_scan.has_npm_audit /\ dependency_scan.npm_audit.hasVulns
            THEN Len(dependency_scan.npm_audit.vulns)
            ELSE 0
    IN  IF Exceeds(total_vulnerabilities, warn_dependency_issues)
        THEN << << Line("High number of dependency vulnerabilities",
                        total_vulnerabilities, "") >>, << >> >>
        ELSE << << >>, << Line("Dependency vulnerabilities",
                               total_vulnerabilities, "") >> >>

\* ScanMissing with the key test alone: a section that is there and empty
\* passes for a completed scan.
ScanMissingKeyOnly(rep, scan_name) ==
    scan_name \notin { "compliance_scan", "dependency_scan", "eslint_security",
                       "codeql_results", "semgrep_results" }

\* "scan_name not in report or not report[scan_name]"
ScanMissing(rep, scan_name) ==
    CASE scan_name = "compliance_scan" -> ~rep.data.compliance_scan.loaded
      [] scan_name = "dependency_scan" -> ~DependencyScanNonEmpty(rep.data)
      [] scan_name = "eslint_security" -> ~rep.data.eslint_security.has_results
      [] OTHER -> TRUE

\* check_required_scans from name k on: << violations, passed checks >>
RECURSIVE RequiredOutcome(_, _)
RequiredOutcome(rep, k) ==
    IF k > Len(required_scans) THEN << << >>, << >> >>
    ELSE LET rest == RequiredOutcome(rep, k + 1)
             name == required_scans[k]
         IN  IF ScanMissing(rep, name)
             THEN << << Line("Required scan missing", 0, name) >> \o rest[1], rest[2] >>
             ELSE << rest[1], << Line("Required scan completed", 0, name) >> \o rest[2] >>

\* check_medium_issues: << warnings, passed checks >> appended
MediumOutcome(rep) ==
    LET medium_count == rep.data.summary.medium_count
    IN  IF Exceeds(medium_count, warn_medium_issues)
        THEN << << Line("High number of medium issues", medium_count, "") >>, << >> >>
        ELSE << << >>, << Line("Medium severity issues", medium_count, "") >> >>

\* ExitCode with the warnings blocking as the violations do.
ExitCodeWarningsBlock(viol, warn) ==
    IF viol # << >> \/ warn # << >> THEN 1 ELSE 0

\* "if self.violations: sys.exit(1) else: sys.exit(0)"
ExitCode(viol, warn) == IF viol # << >> THEN 1 ELSE 0

-----------------------------------------------------------------------------
(* security-gate.py : run_security_gate, call by call *)

Verdict ==
    [ passed_checks |-> passed_checks, violations |-> violations,
      warnings |-> warnings, pass |-> gateExit = 0 ]

NoVerdict ==
    [ passed_checks |-> << >>, violations |-> << >>, warnings |-> << >>,
      pass |-> FALSE ]

\* load_security_report and the exit when nothing was loaded
LoadReport ==
    /\ AggFinished
    /\ pcGate = "load"
    /\ report' = LoadedReport(reportFile)
    /\ violations' = violations \o LoadViolations(reportFile)
    /\ IF CannotLoad(report')
       THEN gateExit' = 1 /\ pcGate' = "exited"
       ELSE gateExit' = gateExit /\ pcGate' = "critical"
    /\ UNCHANGED << warnings, passed_checks, runs, lastVerdict >>
    /\ UNCHANGED << scanVars, artifactVars, aggVars >>

GateStep(from, to, viol, warn, passed) ==
    /\ pcGate = from
    /\ violations' = violations \o viol
    /\ warnings' = warnings \o warn
    /\ passed_checks' = passed_checks \o passed
    /\ pcGate' = to
    /\ UNCHANGED << report, gateExit, runs, lastVerdict >>
    /\ UNCHANGED << scanVars, artifactVars, aggVars >>

check_critical_issues ==
    LET o == CriticalOutcome(report)
    IN  GateStep("critical", "compliance", o[1], << >>, o[2])

check_compliance_issues ==
    LET o == ComplianceOutcome(report)
    IN  GateStep("compliance", "dependency", o[1], << >>, o[2])

check_dependency_issues ==
    LET o == DependencyOutcome(report)
    IN  GateStep("dependency", "required", << >>, o[1], o[2])

check_required_scans ==
    LET o == RequiredOutcome(report, 1)
    IN  GateStep("required", "medium", o[1], << >>, o[2])

check_medium_issues ==
    LET o == MediumOutcome(report)
    IN  GateStep("medium", "decide", << >>, o[1], o[2])

\* The exit code run_security_gate ends with
Decide ==
    /\ pcGate = "decide"
    /\ gateExit' = ExitCode(violations, warnings)
    /\ pcGate' = "exited"
    /\ UNCHANGED << report, violations, warnings, passed_checks, runs, lastVerdict >>
    /\ UNCHANGED << scanVars, artifactVars, aggVars >>

\* run_security_gate called again on the SecurityGate that evaluated the
\* report (a caller that catches SystemExit): nothing resets the lists.
EvaluateAgain ==
    /\ pcGate = "exited"
    /\ runs < MaxEvaluations
    /\ lastVerdict' = Verdict
    /\ runs' = runs + 1
    /\ gateExit' = -1
    /\ pcGate' = "load"
    /\ UNCHANGED << report, violations, warnings, passed_checks >>
    /\ UNCHANGED << scanVars, artifactVars, aggVars >>

\* "gate = SecurityGate(); gate.run_security_gate()" once more: __init__
\* gives the new gate empty lists.
EvaluateAfresh ==
    /\ pcGate = "exited"
    /\ runs < MaxEvaluations
    /\ lastVerdict' = Verdict
    /\ runs' = runs + 1
    /\ gateExit' = -1
    /\ pcGate' = "load"
    /\ violations' = << >>
    /\ warnings' = << >>
    /\ passed_checks' = << >>
    /\ UNCHANGED report
    /\ UNCHANGED << scanVars, artifactVars, aggVars >>

-----------------------------------------------------------------------------
(* The specifications *)

InitWith(fileLists) ==
    /\ files \in fileLists
    /\ fileIdx = 1
    /\ npmAuditOutput \in AuditOutputs
    /\ results = ResultsInit
    /\ pcScan = "files"
    /\ scanExit = -1
    /\ complianceFile = NoFile
    /\ npmArtifact = [ state |-> "absent", data |-> AuditErrorDoc ]
    /\ auditCiArtifact = [ state |-> "absent" ]
    /\ eslintArtifact = [ state |-> "absent", isList |-> FALSE, data |-> << >> ]
    /\ report_data = ReportDataInit
    /\ pcAgg = "idle"
    /\ reportFile = [ state |-> "absent", data |-> ReportDataInit ]
    /\ report = [ empty |-> TRUE, data |-> ReportDataInit ]
    /\ violations = << >>
    /\ warnings = << >>
    /\ passed_checks = << >>
    /\ pcGate = "load"
    /\ gateExit = -1
    /\ runs = 1
    /\ lastVerdict = NoVerdict

\* The pipeline, over lists of at most one file.
Init == InitWith(FileLists(1, SimpleContents))

Next ==
    \/ ScanFileStep
    \/ scan_dependencies
    \/ run_npm_audit
    \/ generate_report
    \/ ScannerNotRun
    \/ ArtifactsFound
    \/ ProcessNpmAudit
    \/ ProcessAuditCi
    \/ ProcessEslint
    \/ ProcessCompliance
    \/ WriteReports
    \/ GeneratorNotRun
    \/ LoadReport
    \/ check_critical_issues
    \/ check_compliance_issues
    \/ check_dependency_issues
    \/ check_required_scans
    \/ check_medium_issues
    \/ Decide

Spec == Init /\ [][Next]_vars

\* The pipeline with the gate evaluating the report up to MaxEvaluations times.
NextTwice ==
    \/ Next
    \/ EvaluateAgain
    \/ EvaluateAfresh

SpecTwice == Init /\ [][NextTwice]_vars

\* The scanner alone, over longer file lists.
InitScan == InitWith(FileLists(MaxFiles, SampleContents))

NextScan ==
    \/ ScanFileStep
    \/ scan_dependencies
    \/ run_npm_audit
    \/ generate_report

SpecScan == InitScan /\ [][NextScan]_vars

-----------------------------------------------------------------------------
(* Properties of the report generator *)

BucketSum(summary) ==
    summary.critical_count + summary.high_count + summary.medium_count
    + summary.low_count + summary.info_count

Priorities(recs) == { recs[i].priority : i \in DOMAIN recs }

\* C1: once the generator has processed its inputs, the Summary's
\* total_issues equals the sum of its five severity buckets.
C1_TotalIsSumOfBuckets ==
    pcAgg = "done" =>
        report_data.summary.total_issues = BucketSum(report_data.summary)

\* C2: whenever generate_recommendations emits the INFO "no issues detected"
\* recommendation, every Summary bucket is zero and no CRITICAL or HIGH
\* recommendation is emitted with it, in particular none about secrets or
\* payment findings of the ScanResult.  (The claim excludes the MEDIUM
\* recommendation as well; that one accompanies INFO whenever a dependency
\* artifact without vulnerabilities was loaded.)
C2_InfoIsExclusive ==
    (pcAgg = "done" /\ "INFO" \in Priorities(report_data.recommendations)) =>
        /\ BucketSum(report_data.summary) = 0
        /\ Priorities(report_data.recommendations) \subseteq { "INFO", "MEDIUM" }

RECURSIVE MessageCount(_, _)
MessageCount(data, k) ==
    IF k > Len(data) THEN 0
    ELSE (IF data[k].hasMessages THEN Len(data[k].messages) ELSE 0)
         + MessageCount(data, k + 1)

\* The packages the dependency audit reported, through either route.
AuditedPackages(rd) ==
    LET issues == rd.compliance_scan.data.dependency_issues
        audit  == rd.dependency_scan.npm_audit
    IN  { issues[i].package :
            i \in { j \in DOMAIN issues : issues[j].type = "npm_audit_vulnerability" } }
        \cup (IF rd.dependency_scan.has_npm_audit /\ audit.hasVulns
              THEN { audit.vulns[i].name : i \in DOMAIN audit.vulns }
              ELSE {})

\* The issues the scans reported, each vulnerability of the audit once.
DistinctIssues(rd) ==
    LET data   == rd.compliance_scan.data
        issues == data.dependency_issues
    IN  Len(data.secrets_found) + Len(data.payment_issues)
        + Cardinality({ j \in DOMAIN issues : issues[j].type = "vulnerable_dependency" })
        + Cardinality(AuditedPackages(rd))
        + MessageCount(rd.eslint_security.results, 1)

\* C3: the Summary buckets count every reported issue at most once, also a
\* vulnerability of the dependency audit that reached the generator both in
\* the ScanResult and in the npm-audit artifact.
C3_CountedOnce ==
    pcAgg = "done" => BucketSum(report_data.summary) <= DistinctIssues(report_data)

\* C7: the generator completes exactly when the compliance ScanResult could
\* be loaded; it never completes without one.
C7_FailsWithoutScanResult ==
    pcAgg = "done" => Loadable(complianceFile)

\* The entries of the external artifacts the generator loaded.
NpmEntries ==
    IF Loadable(npmArtifact) /\ npmArtifact.data.hasVulns
    THEN npmArtifact.data.vulns ELSE << >>

EslintEntries ==
    IF Loadable(eslintArtifact) /\ eslintArtifact.isList
    THEN MessageCount(eslintArtifact.data, 1) ELSE 0

SeverityTable == { "critical", "high", "medium", "moderate", "low", "info" }

OutsideTable(vulns) ==
    { i \in DOMAIN vulns : vulns[i].severity \notin SeverityTable \ { "info" } }

\* C13: after the external artifacts are processed (and before the
\* ScanResult is added) the five buckets sum to the number of entries of the
\* npm-audit and ESLint artifacts, total_issues too, and the info bucket
\* holds exactly the vulnerabilities whose severity is outside the lookup
\* table or missing.
C13_EveryEntryCountedOnce ==
    pcAgg = "compliance" =>
        /\ BucketSum(report_data.summary) = Len(NpmEntries) + EslintEntries
        /\ report_data.summary.total_issues = Len(NpmEntries) + EslintEntries
        /\ report_data.summary.info_count = Cardinality(OutsideTable(NpmEntries))

\* C13 witness: a vulnerability of severity 'unknown' and an ESLint message,
\* two entries, one of them in the info bucket.
C13_UnknownGoesToInfo ==
    /\ pcAgg = "compliance"
    /\ Len(NpmEntries) = 1
    /\ NpmEntries[1].severity = "unknown"
    /\ EslintEntries = 1
    /\ report_data.summary.info_count = 1
    /\ BucketSum(report_data.summary) = 2

EmptyScanResult(data) ==
    /\ data.secrets_found = << >>
    /\ data.payment_issues = << >>
    /\ data.dependency_issues = << >>
    /\ data.high_severity_count = 0
    /\ data.medium_severity_count = 0
    /\ data.low_severity_count = 0

NoExternalArtifacts ==
    /\ npmArtifact.state = "absent"
    /\ auditCiArtifact.state = "absent"
    /\ eslintArtifact.state = "absent"

\* C14: aggregating an empty ScanResult with no external artifact yields a
\* Summary whose total and five buckets are zero and a recommendations list
\* of exactly one entry, of priority INFO.
C14_EmptyInputsOneInfo ==
    ( /\ pcAgg = "done"
      /\ Loadable(complianceFile)
      /\ EmptyScanResult(complianceFile.data)
      /\ NoExternalArtifacts ) =>
        /\ report_data.summary = SummaryInit
        /\ BucketSum(report_data.summary) = 0
        /\ report_data.summary.total_issues = 0
        /\ Len(report_data.recommendations) = 1
        /\ report_data.recommendations[1].priority = "INFO"

\* C14 witness: the generator finished on an empty ScanResult and nothing
\* else, with the single INFO recommendation in the report it wrote.
C14_EmptyAggregated ==
    /\ pcAgg = "done"
    /\ Loadable(complianceFile)
    /\ EmptyScanResult(complianceFile.data)
    /\ NoExternalArtifacts
    /\ reportFile.state = "ok"
    /\ reportFile.data.recommendations = << Recommendation("INFO", "no issues detected") >>

-----------------------------------------------------------------------------
(* Properties of the gate *)

Texts(lines) == { lines[i].text : i \in DOMAIN lines }

\* C4: the gate exits 0 exactly when it loaded a report and the violations
\* list is empty after the checks, whatever the warnings; it exits 1 exactly
\* when the report could not be loaded or a violation is present.
C4_PassIffNoViolations ==
    pcGate = "exited" =>
        /\ gateExit = 0 <=> (~CannotLoad(report) /\ violations = << >>)
        /\ gateExit = 1 <=> (reportFile.state # "ok" \/ violations # << >>)

\* C4 witness: a gate that passed with a warning on its list.
C4_PassedWithWarning ==
    pcGate = "exited" /\ gateExit = 0 /\ warnings # << >>

BlockingThresholdsMet(rd) ==
    /\ rd.compliance_scan.loaded
    /\ rd.summary.critical_count <= max_critical_issues
    /\ rd.summary.high_count <= max_high_issues
    /\ Len(rd.compliance_scan.data.secrets_found) <= max_secrets
    /\ Len(rd.compliance_scan.data.payment_issues) <= max_payment_issues

\* C5: a run without the npm-audit artifact whose ScanResult and other
\* inputs meet every blocking threshold ends with the gate passing, as it
\* does with the artifact.
C5_MissingAuditPasses ==
    (/\ pcGate = "exited"
     /\ pcAgg = "done"
     /\ npmArtifact.state = "absent"
     /\ BlockingThresholdsMet(report_data)) => gateExit = 0

DependencyWarnings ==
    { "Dependency scan results not found",
      "High number of dependency vulnerabilities" }

\* C6: with exactly one dependency Finding in the ScanResult (lodash in
\* package.json) and warn_dependency_issues = 10, the dependency check
\* appends its passed-check and no warning.
C6_OneFindingIsPassedCheck ==
    (/\ pcGate = "exited"
     /\ pcAgg = "done"
     /\ report_data.compliance_scan.loaded
     /\ report_data.compliance_scan.data.dependency_issues
          = << DependencyIssue("lodash", "package.json") >>) =>
        /\ "Dependency vulnerabilities" \in Texts(passed_checks)
        /\ Texts(warnings) \cap DependencyWarnings = {}

\* C8: the gate exits 0 only with a loaded report whose compliance_scan
\* section is non-empty; with the report missing, unparsable or empty it
\* exits 1 and no check has run.
C8_NoDataNeverPasses ==
    /\ gateExit = 0 =>
         /\ reportFile.state = "ok"
         /\ ~report.empty
         /\ report.data.compliance_scan.loaded
    /\ (pcGate = "exited" /\ reportFile.state # "ok") =>
         /\ gateExit = 1
         /\ passed_checks = << >>
         /\ warnings = << >>
         /\ violations = LoadViolations(reportFile)

\* C8 witness: a report was loaded, it holds no compliance section, the
\* checks ran and the gate failed.
C8_LoadedWithoutCompliance ==
    /\ pcGate = "exited"
    /\ ~report.empty
    /\ ~report.data.compliance_scan.loaded
    /\ passed_checks # << >>
    /\ gateExit = 1

\* C9: a second evaluation of the same report under the same policy ends
\* with the Verdict of the one before it: the same passed-checks, violations
\* and warnings in the same order, and the same pass/fail.
C9_SameVerdictTwice ==
    (pcGate = "exited" /\ runs >= 2 /\ ~CannotLoad(report)) =>
        Verdict = lastVerdict

GateRanChecks == pcGate = "exited" /\ ~CannotLoad(report)

\* C11: for a report whose compliance section holds n secret findings the
\* gate appends the violation "Secrets found in code: n" when n exceeds
\* max_secrets and the passed-check "Secrets in code: n" otherwise, whatever
\* the Summary buckets hold.
C11_SecretsFromScanResult ==
    (GateRanChecks /\ report.data.compliance_scan.loaded) =>
        LET n == Len(report.data.compliance_scan.data.secrets_found)
        IN  IF n > max_secrets
            THEN /\ Line("Secrets found in code", n, "") \in Range(violations)
                 /\ "Secrets in code" \notin Texts(passed_checks)
            ELSE /\ Line("Secrets in code", n, "") \in Range(passed_checks)
                 /\ "Secrets found in code" \notin Texts(violations)

\* C11 witness: one api_key finding, a gate that failed citing
\* "Secrets found in code: 1".
C11_OneSecretFails ==
    /\ GateRanChecks
    /\ Len(report.data.compliance_scan.data.secrets_found) = 1
    /\ report.data.compliance_scan.data.secrets_found[1].type = "api_key"
    /\ report.data.compliance_scan.data.secrets_found[1].severity = "high"
    /\ Line("Secrets found in code", 1, "") \in Range(violations)
    /\ gateExit = 1

\* Whether the report's section of that name is absent or empty.
SectionEmpty(rd, name) ==
    IF name = "compliance_scan" THEN ~rd.compliance_scan.loaded
    ELSE IF name = "dependency_scan"
    THEN ~rd.dependency_scan.has_npm_audit /\ ~rd.dependency_scan.has_audit_ci
    ELSE IF name = "eslint_security" THEN ~rd.eslint_security.has_results
    ELSE TRUE

\* C12: for every name in required_scans the gate appends a violation naming
\* the scan when the report has no such section or an empty one, and a
\* passed-check naming it otherwise.
C12_RequiredScansChecked ==
    GateRanChecks =>
        \A k \in DOMAIN required_scans :
            LET name == required_scans[k]
            IN  IF SectionEmpty(report.data, name)
                THEN /\ Line("Required scan missing", 0, name) \in Range(violations)
                     /\ Line("Required scan completed", 0, name) \notin Range(passed_checks)
                     /\ gateExit = 1
                ELSE /\ Line("Required scan completed", 0, name) \in Range(passed_checks)
                     /\ Line("Required scan missing", 0, name) \notin Range(violations)

\* C12 witness: a report with a compliance section and no dependency_scan
\* section: the violation names dependency_scan and the gate fails.
C12_DependencyScanMissing ==
    /\ GateRanChecks
    /\ report.data.compliance_scan.loaded
    /\ Line("Required scan missing", 0, "dependency_scan") \in Range(violations)
    /\ Line("Required scan completed", 0, "compliance_scan") \in Range(passed_checks)
    /\ gateExit = 1

Outcomes == Texts(violations) \cup Texts(warnings) \cup Texts(passed_checks)

\* C15: for every loaded report all seven checks leave their outcome on one
\* of the three lists: the critical count, the high count, the secrets, the
\* payment issues, the dependency vulnerabilities (its warning that no
\* dependency results were found taken for an outcome), every required scan
\* and the medium count; a violation recorded before never suppresses one.
C15_AllSevenChecksReport ==
    GateRanChecks =>
        /\ Outcomes \cap { "Critical issues found", "Critical issues" } # {}
        /\ Outcomes \cap { "High severity issues found", "High severity issues" } # {}
        /\ Outcomes \cap { "Secrets found in code", "Secrets in code" } # {}
        /\ "Payment data issues" \in Outcomes
        /\ Outcomes \cap { "High number of dependency vulnerabilities",
                           "Dependency vulnerabilities",
                           "Dependency scan results not found" } # {}
        /\ \A k \in DOMAIN required_scans :
             \E l \in Range(violations) \cup Range(passed_checks) :
                 /\ l.scan = required_scans[k]
                 /\ l.text \in { "Required scan missing", "Required scan completed" }
        /\ Outcomes \cap { "High number of medium issues", "Medium severity issues" } # {}

\* The count a check of the gate cited, on any of its lists; -1 for none.
CountCited(texts) ==
    LET cited == { l \in Range(violations) \cup Range(warnings) \cup Range(passed_checks) :
                     l.text \in texts }
    IN  IF cited = {} THEN -1 ELSE (CHOOSE l \in cited : TRUE).n

\* C16: a ScanResult with high_severity_count = h > 0 reaches both the count
\* the gate compares with max_critical_issues and the count it compares with
\* max_high_issues, so both checks cite at least h issues; its medium and
\* low tallies are in the Summary's medium and low buckets.
C16_HighTallyInBothChecks ==
    (GateRanChecks /\ report.data.compliance_scan.loaded) =>
        LET data == report.data.compliance_scan.data
            h    == data.high_severity_count
        IN  /\ h > 0 =>
                 /\ CountCited({ "Critical issues found", "Critical issues" }) >= h
                 /\ CountCited({ "High severity issues found", "High severity issues" }) >= h
            /\ report.data.summary.medium_count >= data.medium_severity_count
            /\ report.data.summary.low_count >= data.low_severity_count

-----------------------------------------------------------------------------
(* Properties of the scanner *)

\* C10: at the end of a scan pass the three severity tallies add up to the
\* number of findings in secrets_found, payment_issues and dependency_issues.
C10_TalliesMatchFindings ==
    pcScan = "done" =>
        results.high_severity_count + results.medium_severity_count
          + results.low_severity_count
        = Len(results.secrets_found) + Len(results.payment_issues)
          + Len(results.dependency_issues)

\* C10 witness: a pass over a list with an unreadable file that ended with
\* findings of all three kinds and a vulnerability tallied as low.
C10_MixedPass ==
    /\ pcScan = "done"
    /\ \E i \in DOMAIN files : ~files[i].readable
    /\ results.secrets_found # << >>
    /\ results.payment_issues # << >>
    /\ results.dependency_issues # << >>
    /\ results.low_severity_count > 0

\* The files the loop of scan_project has been through.
Visited == 1..(fileIdx - 1)

\* C17: a file whose read fails is skipped: it is not added to the
\* scanned-file counter, which counts the files read so far, it adds no
\* finding, and the pass goes on to the end of the list wherever the file
\* stands.
C17_FailedFileNotCounted ==
    /\ results.scanned_files
         = Cardinality({ i \in Visited : files[i].readable })
    /\ \A i \in Visited :
         ~files[i].readable =>
             /\ \A k \in DOMAIN results.secrets_found :
                  results.secrets_found[k].file # files[i].path
             /\ \A k \in DOMAIN results.payment_issues :
                  results.payment_issues[k].file # files[i].path
    /\ pcScan # "files" => fileIdx = Len(files) + 1

====
